---- MODULE Spec2Model ----
(***************************************************************************)
(* Three peephole passes over an SSA instruction list (algebraic identity, *)
(* strength reduction, multi-instruction combiner) in two plugins:         *)
(*   "TestPass"  (src/unnamed/part_000): AlgebraicIdentityPass,            *)
(*               StrengthReductionPass, MultiInstructionOptimizationPass;  *)
(*   "MyPasses"  (src/TestPass.cpp, headed "FILE: MyPasses.cpp"):          *)
(*               AlgebraicIdentityPass, StrengthReductionPass and          *)
(*               MultiInstructionOptPass.                                  *)
(*                                                                         *)
(* The guards of the AlgebraicIdentityPass of src/TestPass.cpp, lines 58   *)
(* and 75, are written m_ConstantInt<0>(&Y) and m_ConstantInt<1>(&Y).      *)
(* PatternMatch.h of LLVM 14 has no m_ConstantInt template that takes an   *)
(* argument, so the two expressions are ill-formed as written.  The model  *)
(* assumes the reading the text and its comments ("Pattern: Add(X, 0)",    *)
(* "Pattern: Mul(X, 1)") give: operand 1 is the ConstantInt 0, resp. 1.    *)
(* Everything else of that class (the range-for loop, the switch, the      *)
(* calls after a match, the changed flag) is modelled as written.  The two *)
(* other classes of that file are well-formed and modelled as written.     *)
(*                                                                         *)
(* A function is a sequence of blocks, a block a sequence of instruction   *)
(* ids, and inst maps an id to its opcode and operands.  One action is one *)
(* iteration of a pass's scan loop.                                        *)
(***************************************************************************)
EXTENDS Integers, Sequences, FiniteSets, TLC

VARIABLES
    variant,    \* which plugin's pass runs: "TestPass" or "MyPasses"
    pass,       \* "algebraic", "strength" or "multi"
    inst,       \* id -> [op, a, b]: every instruction ever created
    blk,        \* the function: sequence of blocks, each a sequence of ids
    erased,     \* ids removed by eraseFromParent (deleted objects)
    bb,         \* index of the block being scanned
    it,         \* the scan iterator: an id, or End
    pc,         \* "scan", "done", "hung" / "aborted" in a call that never
                \* returns, or "crashed" on an access through a deleted node
    changed,    \* the local flag of the MyPasses passes
    result,     \* the returned PreservedAnalyses: "none", "all", or "unset" before
    run,        \* number of the current invocation
    rewrites,   \* history: rewrites performed by the current invocation
    examined,   \* history: ids the current invocation dereferenced, in order
    entry       \* history: [inst, blk] at entry of the current invocation

vars == <<variant, pass, inst, blk, erased, bb, it, pc, changed, result, run,
          rewrites, examined, entry>>

----------------------------------------------------------------------------
(* Bounds of the model *)

\* body instructions of an input function (the terminators come on top)
MaxLen == 4
\* body instructions of an input function built from the single-instruction menu
MaxOps == 2
\* bit width of the integer type
W == 5
\* invocations of a pass on the same function
MaxRuns == 2

Mod == 2 ^ W

----------------------------------------------------------------------------
(* Values *)

End == 0

C(n) == [k |-> "const", v |-> n]
Arg(i) == [k |-> "arg", v |-> i]
Slot(i) == [k |-> "slot", v |-> i]
Ref(id) == [k |-> "inst", v |-> id]
NoOperand == [k |-> "none", v |-> 0]

Instr(op, a, b) == [op |-> op, a |-> a, b |-> b]

BinaryOps == {"Add", "Sub", "Mul", "SDiv", "UDiv", "Shl", "LShr", "AShr"}

\* dyn_cast<BinaryOperator>
IsBinaryOperator(i) == i.op \in BinaryOps

\* dyn_cast<ConstantInt> followed by a comparison of the value
IsConstInt(o, n) == o.k = "const" /\ o.v = n

\* opcodes that produce a value
HasResult(op) == op \in BinaryOps \cup {"Load"}

----------------------------------------------------------------------------
(* The instruction list *)

RECURSIVE IndexOf(_, _, _)
IndexOf(s, x, i) ==
    IF i > Len(s) THEN 0
    ELSE IF s[i] = x THEN i
    ELSE IndexOf(s, x, i + 1)

\* std::next / operator++ on a linked node: the successor, or End
NextOf(b, id) ==
    LET p == IndexOf(b, id, 1)
    IN IF p = 0 \/ p = Len(b) THEN End ELSE b[p + 1]

\* BB.begin()
Begin(b) == IF Len(b) = 0 THEN End ELSE b[1]

\* eraseFromParent: unlink from the block
Unlink(b, id) == SelectSeq(b, LAMBDA x : x # id)

\* insertion of a new instruction immediately before an existing one
InsertBefore(b, id, new) ==
    LET p == IndexOf(b, id, 1)
    IN SubSeq(b, 1, p - 1) \o <<new>> \o SubSeq(b, p, Len(b))

\* what a call that does not return gives: no table
NoReturn == <<>>

\* replaceAllUsesWith: every operand slot that refers to old now holds new.
\* Value::replaceAllUsesWith requires new to be another value than old; a
\* call with the value itself does not return (it loops over a use list
\* that never empties, or fails the assertion in a build with assertions).
ReplaceAllUsesWith(tab, old, new) ==
    IF new = Ref(old) THEN NoReturn
    ELSE [j \in DOMAIN tab |->
            [tab[j] EXCEPT !.a = IF @ = Ref(old) THEN new ELSE @,
                           !.b = IF @ = Ref(old) THEN new ELSE @]]

\* ids linked into some block
Live(bs) == UNION {{bs[n][p] : p \in 1..Len(bs[n])} : n \in 1..Len(bs)}

----------------------------------------------------------------------------
(* Semantics of the instructions on W-bit integers *)

\* the result of an operation that has none: a poison value, or the reading
\* of an instruction that was not executed.  It is none of the W-bit values
\* 0 .. Mod - 1.
Poison == Mod

\* two's-complement reading of a W-bit pattern
Signed(x) == IF x >= Mod \div 2 THEN x - Mod ELSE x

\* signed division truncates toward zero
SDivInt(x, y) ==
    LET sx == Signed(x)
        sy == Signed(y)
        ax == IF sx < 0 THEN -sx ELSE sx
        ay == IF sy < 0 THEN -sy ELSE sy
        q  == ax \div ay
    IN IF (sx < 0) # (sy < 0) THEN (-q) % Mod ELSE q % Mod

\* a division with no result: by zero, or the signed minimum by -1
DivisionUndefined(op, x, y) ==
    \/ op \in {"UDiv", "SDiv"} /\ y = 0
    \/ op = "SDiv" /\ x = Mod \div 2 /\ y = Mod - 1

\* the value an opcode computes on W-bit operands.  A division with no
\* result, a shift by W or more and any operation on poison give Poison.
BinValue(op, x, y) ==
    IF x = Poison \/ y = Poison THEN Poison
    ELSE IF DivisionUndefined(op, x, y) THEN Poison
    ELSE CASE op = "Add"  -> (x + y) % Mod
           [] op = "Sub"  -> (x - y) % Mod
           [] op = "Mul"  -> (x * y) % Mod
           [] op = "UDiv" -> x \div y
           [] op = "SDiv" -> SDivInt(x, y)
           [] op = "Shl"  -> IF y >= W THEN Poison ELSE (x * 2 ^ y) % Mod
           [] op = "LShr" -> IF y >= W THEN Poison ELSE x \div 2 ^ y
           [] op = "AShr" -> IF y >= W THEN Poison ELSE (Signed(x) \div 2 ^ y) % Mod

\* the value of an operand, given the argument, the results so far and memory
OperandValue(o, x, env) ==
    CASE o.k = "const" -> o.v % Mod
      [] o.k = "arg"   -> x
      [] o.k = "inst"  -> IF o.v \in DOMAIN env THEN env[o.v] ELSE Poison
      [] OTHER         -> Poison

\* executing a division by zero (whatever the dividend), by poison, or of
\* the signed minimum by -1, is undefined behaviour: the execution may be
\* killed there (SIGFPE), or give any value and go on
UndefinedDivision(op, x, y) ==
    /\ op \in {"UDiv", "SDiv"}
    /\ \/ y = 0
       \/ y = Poison
       \/ op = "SDiv" /\ x = Mod \div 2 /\ y = Mod - 1

\* execution of ids order[i..] up to the first Ret; the set of possible
\* outcomes, each the results of the instructions executed (the value of Ret
\* is recorded under its own id).  An execution killed at a division ends
\* there: the division and the instructions after it have no entry in the
\* outcome.
RECURSIVE Exec(_, _, _, _, _, _)
Exec(tab, order, i, x, env, mem) ==
    IF i > Len(order) THEN {env}
    ELSE
      LET id == order[i]
          n  == tab[id]
      IN CASE n.op \in BinaryOps ->
                LET a == OperandValue(n.a, x, env)
                    b == OperandValue(n.b, x, env)
                IN IF UndefinedDivision(n.op, a, b)
                   THEN {env} \cup
                        UNION {Exec(tab, order, i + 1, x, env @@ (id :> v), mem) :
                                 v \in 0..(Mod - 1)}
                   ELSE Exec(tab, order, i + 1, x,
                             env @@ (id :> BinValue(n.op, a, b)), mem)
           [] n.op = "Store" ->
                Exec(tab, order, i + 1, x, env,
                     [mem EXCEPT ![n.b.v] = OperandValue(n.a, x, env)])
           [] n.op = "Load" ->
                Exec(tab, order, i + 1, x, env @@ (id :> mem[n.a.v]), mem)
           [] n.op = "Ret" -> {env @@ (id :> OperandValue(n.a, x, env))}
           [] OTHER -> Exec(tab, order, i + 1, x, env, mem)

RECURSIVE Flatten(_, _)
Flatten(bs, n) == IF n > Len(bs) THEN <<>> ELSE bs[n] \o Flatten(bs, n + 1)

Slots == {1, 2}

\* the possible outcomes of running the function from its first block on
\* argument x with memory initially m0
Evaluate(tab, bs, x, m0) ==
    Exec(tab, Flatten(bs, 1), 1, x, <<>>, [s \in Slots |-> m0])

----------------------------------------------------------------------------
(* One loop body of each pass.  A body takes the instruction table, the    *)
(* blocks, the index n of the block being scanned, the instruction I under *)
(* examination and the iterator nxt already advanced past I; it returns    *)
(* the new table and blocks, the set of erased ids, the number of rewrites *)
(* it made, and whether it returns at all.                                 *)

Keep(tab, bs) == [inst |-> tab, blk |-> bs, gone |-> {}, n |-> 0, returns |-> TRUE]

\* ReplaceAndErase with the replaceAllUsesWith call left out: the instruction
\* is unlinked while its users still refer to it
EraseWithoutReplace(tab, bs, n, I, x) ==
    [inst |-> tab,
     blk  |-> [bs EXCEPT ![n] = Unlink(@, I)],
     gone |-> {I},
     n    |-> 1,
     returns |-> TRUE]

\* binOp->replaceAllUsesWith(x); binOp->eraseFromParent();  When the first
\* call does not return, nothing is erased.
ReplaceAndErase(tab, bs, n, I, x) ==
    LET replaced == ReplaceAllUsesWith(tab, I, x)
    IN IF replaced = NoReturn
       THEN [inst |-> tab, blk |-> bs, gone |-> {}, n |-> 0, returns |-> FALSE]
       ELSE [inst |-> replaced,
             blk  |-> [bs EXCEPT ![n] = Unlink(@, I)],
             gone |-> {I},
             n    |-> 1,
             returns |-> TRUE]

\* AlgebraicIdentityPass with the isZero() test on operand 1 of an Add
\* left out
AlgebraicIdentity_AnyConstant(tab, bs, n, I) ==
    LET i == tab[I]
    IN IF ~IsBinaryOperator(i) THEN Keep(tab, bs)
       ELSE IF i.op = "Add" /\ i.b.k = "const"
         THEN ReplaceAndErase(tab, bs, n, I, i.a)
       ELSE IF i.op = "Add" /\ IsConstInt(i.a, 0)
         THEN ReplaceAndErase(tab, bs, n, I, i.b)
       ELSE IF i.op = "Mul" /\ IsConstInt(i.b, 1)
         THEN ReplaceAndErase(tab, bs, n, I, i.a)
       ELSE IF i.op = "Mul" /\ IsConstInt(i.a, 1)
         THEN ReplaceAndErase(tab, bs, n, I, i.b)
       ELSE Keep(tab, bs)

\* plugin TestPass, AlgebraicIdentityPass::run, loop body: operand 1 is tried
\* before operand 0
AlgebraicIdentityPass(tab, bs, n, I) ==
    LET i == tab[I]
    IN IF ~IsBinaryOperator(i) THEN Keep(tab, bs)
       ELSE IF i.op = "Add" /\ IsConstInt(i.b, 0)
         THEN ReplaceAndErase(tab, bs, n, I, i.a)
       ELSE IF i.op = "Add" /\ IsConstInt(i.a, 0)
         THEN ReplaceAndErase(tab, bs, n, I, i.b)
       ELSE IF i.op = "Mul" /\ IsConstInt(i.b, 1)
         THEN ReplaceAndErase(tab, bs, n, I, i.a)
       ELSE IF i.op = "Mul" /\ IsConstInt(i.a, 1)
         THEN ReplaceAndErase(tab, bs, n, I, i.b)
       ELSE Keep(tab, bs)

\* plugin MyPasses, AlgebraicIdentityPass::run, loop body.  m_Add and m_Mul
\* are not commutative: X is operand 0, and the constant is looked for as
\* operand 1 only.  The constant patterns of lines 58 and 75 are read as
\* "the ConstantInt 0" and "the ConstantInt 1" (see the head of the module).
AlgebraicIdentityPass_MyPasses(tab, bs, n, I) ==
    LET i == tab[I]
    IN IF ~IsBinaryOperator(i) THEN Keep(tab, bs)
       ELSE IF i.op = "Add" /\ IsConstInt(i.b, 0)
         THEN ReplaceAndErase(tab, bs, n, I, i.a)
       ELSE IF i.op = "Mul" /\ IsConstInt(i.b, 1)
         THEN ReplaceAndErase(tab, bs, n, I, i.a)
       ELSE Keep(tab, bs)

\* a new instruction takes the next free id of the table
NewId(tab) == Len(tab) + 1

\* BinaryOperator::Create<op>(a, b, name, binOp): create, insert before I
CreateBefore(r, n, I, op, a, b) ==
    [r EXCEPT !.inst = Append(@, Instr(op, a, b)),
              !.blk  = [@ EXCEPT ![n] = InsertBefore(@, I, NewId(r.inst))]]

\* plugin TestPass, StrengthReductionPass::run, loop body
StrengthReductionPass(tab, bs, n, I) ==
    LET i == tab[I]
        swap == IsConstInt(i.a, 15)
        op0 == IF swap THEN i.b ELSE i.a
        op1 == IF swap THEN i.a ELSE i.b
    IN IF ~IsBinaryOperator(i) THEN Keep(tab, bs)
       ELSE IF i.op = "Mul" /\ IsConstInt(op1, 15) THEN
         LET r1 == CreateBefore(Keep(tab, bs), n, I, "Shl", op0, C(4))
             shiftInst == NewId(tab)
             r2 == CreateBefore(r1, n, I, "Sub", Ref(shiftInst), op0)
             newInst == NewId(r1.inst)
         IN ReplaceAndErase(r2.inst, r2.blk, n, I, Ref(newInst))
       ELSE IF i.op = "SDiv" /\ IsConstInt(i.b, 8) THEN
         LET r1 == CreateBefore(Keep(tab, bs), n, I, "AShr", i.a, C(3))
         IN ReplaceAndErase(r1.inst, r1.blk, n, I, Ref(NewId(tab)))
       ELSE Keep(tab, bs)

\* IRBuilder<>::Create<op>(a, b) with the insertion point before I: two
\* constants are folded to a constant and nothing is inserted; otherwise an
\* instruction is created and inserted.  Returns [r, val].
BuilderCreate(r, n, I, op, a, b) ==
    IF a.k = "const" /\ b.k = "const"
    THEN [r |-> r, val |-> C(BinValue(op, a.v % Mod, b.v % Mod))]
    ELSE [r |-> CreateBefore(r, n, I, op, a, b), val |-> Ref(NewId(r.inst))]

\* plugin MyPasses, StrengthReductionPass::run, loop body: m_Mul / m_UDiv /
\* m_SDiv with m_ConstantInt(C) bind the constant as operand 1 only
StrengthReductionPass_MyPasses(tab, bs, n, I) ==
    LET i == tab[I]
    IN IF ~IsBinaryOperator(i) THEN Keep(tab, bs)
       ELSE IF i.op = "Mul" /\ IsConstInt(i.b, 15) THEN
         LET Shifted == BuilderCreate(Keep(tab, bs), n, I, "Shl", i.a, C(4))
             NewVal == BuilderCreate(Shifted.r, n, I, "Sub", Shifted.val, i.a)
         IN ReplaceAndErase(NewVal.r.inst, NewVal.r.blk, n, I, NewVal.val)
       ELSE IF i.op \in {"SDiv", "UDiv"} /\ IsConstInt(i.b, 8) THEN
         LET Shifted == BuilderCreate(Keep(tab, bs), n, I, "LShr", i.a, C(3))
         IN ReplaceAndErase(Shifted.r.inst, Shifted.r.blk, n, I, Shifted.val)
       ELSE Keep(tab, bs)

\* plugin MyPasses, MultiInstructionOptPass::run, loop body: Sub(A, 1) whose
\* A is the instruction Add(B, 1), wherever that Add is
MultiInstructionOptPass(tab, bs, n, I) ==
    LET i == tab[I]
    IN IF /\ IsBinaryOperator(i) /\ i.op = "Sub"
          /\ IsConstInt(i.b, 1)
          /\ i.a.k = "inst"
          /\ tab[i.a.v].op = "Add"
          /\ IsConstInt(tab[i.a.v].b, 1)
       THEN ReplaceAndErase(tab, bs, n, I, tab[i.a.v].a)
       ELSE Keep(tab, bs)

\* plugin TestPass, MultiInstructionOptimizationPass: the base b of an Add
\* of the constant 1; operand 0 is looked at only when operand 1 is no
\* ConstantInt at all
AddBase(i) ==
    IF i.b.k = "const"
    THEN (IF i.b.v = 1 THEN i.a ELSE NoOperand)
    ELSE IF i.a.k = "const"
    THEN (IF i.a.v = 1 THEN i.b ELSE NoOperand)
    ELSE NoOperand

\* plugin TestPass, MultiInstructionOptimizationPass::run, loop body: look
\* ahead from the advanced iterator nxt for Store(add, p); Load(p); Sub(load, 1) and set the
\* Sub's operand 0 to b
MultiInstructionOptimizationPass(tab, bs, n, I, nxt) ==
    LET i == tab[I]
        b == AddBase(i)
        nextIt == NextOf(bs[n], nxt)
        nextNextIt == NextOf(bs[n], nextIt)
    IN IF ~(IsBinaryOperator(i) /\ i.op = "Add") THEN Keep(tab, bs)
       ELSE IF b = NoOperand THEN Keep(tab, bs)
       ELSE IF /\ nxt # End
               /\ tab[nxt].op = "Store"
               /\ tab[nxt].a = Ref(I)
               /\ nextIt # End
               /\ tab[nextIt].op = "Load"
               /\ tab[nextIt].a = tab[nxt].b
               /\ nextNextIt # End
               /\ tab[nextNextIt].op = "Sub"
               /\ tab[nextNextIt].a = Ref(nextIt)
               /\ IsConstInt(tab[nextNextIt].b, 1)
         THEN [inst |-> [tab EXCEPT ![nextNextIt].a = b],
               blk |-> bs, gone |-> {}, n |-> 1, returns |-> TRUE]
       ELSE Keep(tab, bs)

----------------------------------------------------------------------------
(* Input functions.  A body is a sequence of templates whose operand       *)
(* Prev(d) stands for the result of the instruction d places earlier (a    *)
(* body of chain pieces starts with an operation on the argument); the     *)
(* function returns the last result.  In layout "single" the body is one   *)
(* block; in "split" its first instruction forms a block of its own that   *)
(* branches to the rest; in "dead" the entry block returns the argument    *)
(* and the body is a block no branch leads to, where an instruction may    *)
(* have its own result or a later one as operand (the IR verifier accepts  *)
(* that in unreachable code).                                              *)

Prev(d) == [k |-> "prev", v |-> d]

\* opcode/constant pairs of the single-instruction rules and their negatives
OpConsts == {<<"Add", 0>>, <<"Add", 2>>, <<"Mul", 1>>, <<"Mul", 15>>,
             <<"SDiv", 8>>, <<"SDiv", 7>>, <<"UDiv", 8>>, <<"UDiv", 7>>}

\* the pairs also tried with the constant as operand 0 of an instruction
\* whose other operand is an instruction result
LeftConsts == {<<"Add", 0>>, <<"Mul", 1>>, <<"Mul", 15>>}

OpMenu ==
    UNION {{Instr(oc[1], r, C(oc[2])) : r \in {Arg(1), Prev(1)}} : oc \in OpConsts}
    \cup {Instr(oc[1], C(oc[2]), Arg(1)) : oc \in OpConsts}
    \cup {Instr(oc[1], C(oc[2]), Prev(1)) : oc \in LeftConsts}
    \cup {Instr("Mul", C(15), C(15)), Instr("UDiv", C(15), C(8))}

\* pieces of the Add / Store / Load / Sub chain and what may interleave
ChainMenu ==
    {Instr("Add", Arg(1), C(1)), Instr("Add", C(1), Arg(1)),
     Instr("Store", Prev(1), Slot(1)), Instr("Load", Slot(1), NoOperand),
     Instr("Load", Slot(2), NoOperand),
     Instr("Sub", Prev(1), C(1)), Instr("Sub", Prev(1), C(2)),
     Instr("Sub", Prev(2), C(1)), Instr("Mul", Arg(1), C(3))}

\* operands of instructions in unreachable code: the instruction itself, and
\* the next one
Self == Prev(0)
Later == Prev(-1)

\* instructions of an unreachable block
DeadMenu ==
    {Instr("Add", Self, C(0)), Instr("Add", C(0), Self),
     Instr("Mul", Self, C(1)), Instr("Mul", C(1), Self),
     Instr("Mul", Self, C(15)), Instr("SDiv", Self, C(8)),
     Instr("Add", Later, C(1)), Instr("Sub", Prev(1), C(1))}

\* a Prev(d) operand at place p names an earlier instruction with a result
OperandOk(t, p, o) ==
    o.k = "prev" => (o.v >= 1 /\ p - o.v >= 1 /\ HasResult(t[p - o.v].op))

WellFormed(t) == \A p \in 1..Len(t) : OperandOk(t, p, t[p].a) /\ OperandOk(t, p, t[p].b)

\* in unreachable code a Prev(d) operand names any instruction of the body
\* with a result
DeadOperandOk(t, p, o) ==
    o.k = "prev" => (p - o.v \in 1..Len(t) /\ HasResult(t[p - o.v].op))

DeadWellFormed(t) ==
    \A p \in 1..Len(t) : DeadOperandOk(t, p, t[p].a) /\ DeadOperandOk(t, p, t[p].b)

Bodies ==
    {t \in UNION {[1..n -> OpMenu] : n \in 1..MaxOps} : WellFormed(t)}
    \cup
    {t \in UNION {[1..n -> ChainMenu] : n \in 1..MaxLen} :
        WellFormed(t) /\ t[1].op \in BinaryOps}

DeadBodies ==
    {t \in UNION {[1..n -> DeadMenu] : n \in 1..MaxOps} : DeadWellFormed(t)}

\* the input functions: a body and its layout
Inputs ==
    {[t |-> t, lay |-> "single"] : t \in Bodies}
    \cup {[t |-> t, lay |-> "split"] : t \in {u \in Bodies : Len(u) >= 2}}
    \cup {[t |-> t, lay |-> "dead"] : t \in DeadBodies}

Resolve(p, o) == IF o.k = "prev" THEN Ref(p - o.v) ELSE o

\* the last instruction with a result, or the argument
RECURSIVE LastResult(_, _)
LastResult(t, p) ==
    IF p = 0 THEN Arg(1)
    ELSE IF HasResult(t[p].op) THEN Ref(p)
    ELSE LastResult(t, p - 1)

\* ids 1..n are the body, n+1 its Ret, n+2 the Br of a split function or the
\* Ret of the entry block before a dead body
Table(t, lay) ==
    [p \in 1..Len(t) |-> Instr(t[p].op, Resolve(p, t[p].a), Resolve(p, t[p].b))]
    \o <<Instr("Ret", LastResult(t, Len(t)), NoOperand)>>
    \o (CASE lay = "single" -> <<>>
          [] lay = "split"  -> <<Instr("Br", NoOperand, NoOperand)>>
          [] lay = "dead"   -> <<Instr("Ret", Arg(1), NoOperand)>>)

Blocks(t, lay) ==
    LET n == Len(t)
    IN CASE lay = "single" -> <<[p \in 1..(n + 1) |-> p]>>
         [] lay = "split"  -> <<<<1, n + 2>>, [p \in 1..n |-> p + 1]>>
         [] lay = "dead"   -> <<<<n + 2>>, [p \in 1..(n + 1) |-> p]>>

\* the passes each plugin registers
Programs ==
    {<<"TestPass", "algebraic">>, <<"TestPass", "strength">>, <<"TestPass", "multi">>,
     <<"MyPasses", "algebraic">>, <<"MyPasses", "strength">>, <<"MyPasses", "multi">>}

----------------------------------------------------------------------------
(* The scan *)

Init ==
    /\ \E pr \in Programs : variant = pr[1] /\ pass = pr[2]
    /\ \E f \in Inputs :
         /\ inst = Table(f.t, f.lay)
         /\ blk = Blocks(f.t, f.lay)
    /\ erased = {}
    /\ bb = 1
    /\ it = Begin(blk[1])
    /\ pc = "scan"
    /\ changed = FALSE
    /\ result = "unset"
    /\ run = 1
    /\ rewrites = 0
    /\ examined = <<>>
    /\ entry = [inst |-> inst, blk |-> blk]

\* the body of the running pass applied to I
Body(I, nxt) ==
    CASE variant = "TestPass" /\ pass = "algebraic" ->
           AlgebraicIdentityPass(inst, blk, bb, I)
      [] variant = "TestPass" /\ pass = "strength" ->
           StrengthReductionPass(inst, blk, bb, I)
      [] variant = "TestPass" /\ pass = "multi" ->
           MultiInstructionOptimizationPass(inst, blk, bb, I, nxt)
      [] variant = "MyPasses" /\ pass = "algebraic" ->
           AlgebraicIdentityPass_MyPasses(inst, blk, bb, I)
      [] variant = "MyPasses" /\ pass = "strength" ->
           StrengthReductionPass_MyPasses(inst, blk, bb, I)
      [] variant = "MyPasses" /\ pass = "multi" ->
           MultiInstructionOptPass(inst, blk, bb, I)

\* the effect of a body that returns; the MyPasses bodies set changed = true
\* after a rewrite
Apply(r) ==
    /\ inst' = r.inst
    /\ blk' = r.blk
    /\ erased' = erased \cup r.gone
    /\ rewrites' = rewrites + r.n
    /\ changed' = IF variant = "MyPasses" THEN (changed \/ r.n > 0) ELSE changed

\* the one loop written for (auto &I : BB): the iterator stays on I while
\* the body runs and is advanced after it.  Every other loop takes I with a
\* post-increment, I = &*it++, before the body.
RangeFor == variant = "MyPasses" /\ pass = "algebraic"

\* for (it = BB.begin(), end = BB.end(); it != end;) { I = &*it++; ... }
\* with a body that returns
Step ==
    /\ pc = "scan" /\ it # End /\ ~RangeFor
    /\ LET nxt == NextOf(blk[bb], it)
           r == Body(it, nxt)
       IN /\ r.returns
          /\ Apply(r)
          /\ it' = nxt
    /\ examined' = Append(examined, it)
    /\ UNCHANGED <<variant, pass, bb, pc, result, run, entry>>

\* for (auto &I : BB) { ... } with a body that returns.  The break after
\* eraseFromParent leaves the switch only, so the loop goes on: when I was
\* kept the iterator moves to its successor; when I was erased the iterator
\* is left on the deleted instruction, from which the loop will advance.
StepRangeFor ==
    /\ pc = "scan" /\ it # End /\ RangeFor /\ it \notin erased
    /\ LET r == Body(it, NextOf(blk[bb], it))
       IN /\ r.returns
          /\ Apply(r)
          /\ it' = IF it \in r.gone THEN it ELSE NextOf(r.blk[bb], it)
    /\ examined' = Append(examined, it)
    /\ UNCHANGED <<variant, pass, bb, pc, result, run, entry>>

\* the link a deleted instruction held when it was unlinked.  The range-for
\* pass inserts nothing and erases only the instruction under examination,
\* so this is its successor in the block at entry.
StaleNext(I) == NextOf(entry.blk[bb], I)

\* ++it on the iterator of the range-for loop when it stands on a deleted
\* instruction: a read of freed memory, undefined behaviour.  The process is
\* killed (now, or at the next dereference of the link eraseFromParent
\* cleared), or the read still finds the old link and the scan goes on with
\* the former successor.
AdvanceFromErased ==
    /\ pc = "scan" /\ it \in erased
    /\ \/ pc' = "crashed" /\ it' = it
       \/ pc' = pc /\ it' = StaleNext(it)
    /\ UNCHANGED <<variant, pass, inst, blk, erased, bb, changed, result, run,
                   rewrites, examined, entry>>

\* an iteration with a body whose replaceAllUsesWith call does not return:
\* the invocation loops for ever, or aborts on the failed assertion in a
\* build with assertions
StepNoReturn ==
    /\ pc = "scan" /\ it # End /\ it \notin erased
    /\ LET nxt == NextOf(blk[bb], it)
       IN /\ ~Body(it, nxt).returns
          /\ it' = IF RangeFor THEN it ELSE nxt
    /\ pc' \in {"hung", "aborted"}
    /\ examined' = Append(examined, it)
    /\ UNCHANGED <<variant, pass, inst, blk, erased, bb, changed, result, run,
                   rewrites, entry>>

\* for (auto &BB : F): the next block
NextBlock ==
    /\ pc = "scan" /\ it = End /\ bb < Len(blk)
    /\ bb' = bb + 1
    /\ it' = Begin(blk[bb + 1])
    /\ UNCHANGED <<variant, pass, inst, blk, erased, pc, changed, result, run,
                   rewrites, examined, entry>>

\* plugin TestPass: every pass ends with return PreservedAnalyses::none()
ReturnTestPass ==
    /\ pc = "scan" /\ it = End /\ bb = Len(blk)
    /\ variant = "TestPass"
    /\ result' = "none"
    /\ pc' = "done"
    /\ UNCHANGED <<variant, pass, inst, blk, erased, bb, it, changed, run,
                   rewrites, examined, entry>>

\* plugin MyPasses: none() if changed, all() otherwise
ReturnMyPasses ==
    /\ pc = "scan" /\ it = End /\ bb = Len(blk)
    /\ variant = "MyPasses"
    /\ result' = IF changed THEN "none" ELSE "all"
    /\ pc' = "done"
    /\ UNCHANGED <<variant, pass, inst, blk, erased, bb, it, changed, run,
                   rewrites, examined, entry>>

\* the pass manager runs the same pass on the function once more
Rerun ==
    /\ pc = "done" /\ run < MaxRuns
    /\ run' = run + 1
    /\ bb' = 1
    /\ it' = Begin(blk[1])
    /\ pc' = "scan"
    /\ changed' = FALSE
    /\ result' = "unset"
    /\ rewrites' = 0
    /\ examined' = <<>>
    /\ entry' = [inst |-> inst, blk |-> blk]
    /\ UNCHANGED <<variant, pass, inst, blk, erased>>

Next ==
    \/ Step
    \/ StepRangeFor
    \/ AdvanceFromErased
    \/ StepNoReturn
    \/ NextBlock
    \/ ReturnTestPass
    \/ ReturnMyPasses

\* one invocation of one pass on one function
Spec == Init /\ [][Next]_vars

NextRerun ==
    \/ Next
    \/ Rerun

\* up to MaxRuns invocations of the same pass in a row
SpecRerun == Init /\ [][NextRerun]_vars

----------------------------------------------------------------------------
(* Vocabulary of the properties *)

Done == pc = "done"

EntryLive == Live(entry.blk)

\* the operand slots of the function at entry that referred to instruction I,
\* as <<user id, slot>>
UsesAtEntry(I) ==
    {<<j, "a">> : j \in {u \in EntryLive : entry.inst[u].a = Ref(I)}}
    \cup {<<j, "b">> : j \in {u \in EntryLive : entry.inst[u].b = Ref(I)}}

\* what the slot holds now
SlotNow(u) == IF u[2] = "a" THEN inst[u[1]].a ELSE inst[u[1]].b

\* x of Add(x, 0), Add(0, x), Mul(x, 1), Mul(1, x); NoOperand for anything else
IdentityOperand(i) ==
    IF i.op = "Add" /\ i.b = C(0) THEN i.a
    ELSE IF i.op = "Add" /\ i.a = C(0) THEN i.b
    ELSE IF i.op = "Mul" /\ i.b = C(1) THEN i.a
    ELSE IF i.op = "Mul" /\ i.a = C(1) THEN i.b
    ELSE NoOperand

\* x followed through identities of identities: Add(Add(x, 0), 0) is x
RECURSIVE IdentityFinal(_, _, _)
IdentityFinal(tab, o, seen) ==
    IF o.k = "inst" /\ o.v \notin seen /\ IdentityOperand(tab[o.v]) # NoOperand
    THEN IdentityFinal(tab, IdentityOperand(tab[o.v]), seen \cup {o.v})
    ELSE o

\* the identities of the function at entry
Identities == {I \in EntryLive : IdentityOperand(entry.inst[I]) # NoOperand}

\* the current invocation does not return: a call hangs or aborts, or the
\* process is killed
NeverReturns == pc \in {"hung", "aborted", "crashed"}

\* C1: every call of a run of the algebraic identity pass returns, and after it every
\* Add(x, 0), Add(0, x), Mul(x, 1), Mul(1, x) of the function is out of its
\* block and every remaining former use of its result refers to x.
C1_IdentityRewritten ==
    pass = "algebraic" =>
        /\ ~NeverReturns
        /\ Done =>
             \A I \in Identities :
                 /\ I \notin Live(blk)
                 /\ \A u \in UsesAtEntry(I) :
                      u[1] \in Live(blk) =>
                          SlotNow(u) = IdentityFinal(entry.inst, Ref(I), {})

\* b of Add(b, 1) or Add(1, b); NoOperand for anything else
ChainBase(i) ==
    IF i.op = "Add" /\ i.b = C(1) THEN i.a
    ELSE IF i.op = "Add" /\ i.a = C(1) THEN i.b
    ELSE NoOperand

\* <<n, p>>: position p of block n of the function at entry
EntryPlaces ==
    UNION {{<<n, p>> : p \in 1..Len(entry.blk[n])} : n \in 1..Len(entry.blk)}

\* the instruction at place <<n, p + d>> at entry, or a Br past the end
EntryAt(q, d) ==
    IF q[2] + d <= Len(entry.blk[q[1]])
    THEN entry.inst[entry.blk[q[1]][q[2] + d]]
    ELSE Instr("Br", NoOperand, NoOperand)

EntryId(q, d) ==
    IF q[2] + d <= Len(entry.blk[q[1]]) THEN entry.blk[q[1]][q[2] + d] ELSE End

\* places where a = Add(b, 1); Store(a, slot); t = Load(slot); c = Sub(t, 1)
\* starts at entry
RoundTripChains ==
    {q \in EntryPlaces :
        /\ ChainBase(EntryAt(q, 0)) # NoOperand
        /\ EntryAt(q, 1).op = "Store" /\ EntryAt(q, 1).a = Ref(EntryId(q, 0))
        /\ EntryAt(q, 2).op = "Load" /\ EntryAt(q, 2).a = EntryAt(q, 1).b
        /\ EntryAt(q, 3).op = "Sub" /\ EntryAt(q, 3).a = Ref(EntryId(q, 2))
        /\ EntryAt(q, 3).b = C(1)}

\* places where a = Add(b, 1); c = Sub(a, 1) starts at entry
DirectChains ==
    {q \in EntryPlaces :
        /\ ChainBase(EntryAt(q, 0)) # NoOperand
        /\ EntryAt(q, 1).op = "Sub" /\ EntryAt(q, 1).a = Ref(EntryId(q, 0))
        /\ EntryAt(q, 1).b = C(1)}

\* initial contents of memory tried by the value comparisons
InitialMemory == {0, Mod - 1}

\* C2: after one run of the combiner on a = Add(b, 1); Store(a, slot);
\* t = Load(slot); c = Sub(t, 1), whatever a former use of c now holds
\* evaluates to the value of b, for every argument and initial memory.
C2_RoundTripObservesBase ==
    (Done /\ pass = "multi") =>
        \A q \in RoundTripChains : \A x \in 0..(Mod - 1) : \A m \in InitialMemory :
            \A before \in Evaluate(entry.inst, entry.blk, x, m) :
            \A after \in Evaluate(inst, blk, x, m) :
                LET b == ChainBase(EntryAt(q, 0))
                IN \A u \in UsesAtEntry(EntryId(q, 3)) :
                     u[1] \in Live(blk) =>
                       OperandValue(SlotNow(u), x, after) = OperandValue(b, x, before)

\* b followed through direct chains of direct chains
RECURSIVE DirectFinal(_, _, _)
DirectFinal(tab, o, seen) ==
    IF /\ o.k = "inst" /\ o.v \notin seen
       /\ tab[o.v].op = "Sub" /\ tab[o.v].b = C(1)
       /\ tab[o.v].a.k = "inst" /\ ChainBase(tab[tab[o.v].a.v]) # NoOperand
    THEN DirectFinal(tab, ChainBase(tab[tab[o.v].a.v]), seen \cup {o.v})
    ELSE o

\* C3: after one run of the combiner on a = Add(b, 1) or Add(1, b)
\* immediately followed by c = Sub(a, 1), every former use of c refers to b.
C3_DirectChainRedirected ==
    (Done /\ pass = "multi") =>
        \A q \in DirectChains :
            \A u \in UsesAtEntry(EntryId(q, 1)) :
                u[1] \in Live(blk) =>
                    SlotNow(u) = DirectFinal(entry.inst, ChainBase(EntryAt(q, 0)), {})

\* C4: a run reports changed (preserves no analyses) exactly when it
\* performed at least one rewrite.
C4_ChangedIffRewrite ==
    Done => ((result = "none") <=> (rewrites > 0))

\* the block of the function at entry that holds instruction I
EntryBlockOf(I) ==
    CHOOSE n \in 1..Len(entry.blk) : IndexOf(entry.blk[n], I, 1) # 0

\* instructions created by the current invocation and linked into block n
NewIn(n) == {j \in Live(blk) : j \notin DOMAIN entry.inst /\ IndexOf(blk[n], j, 1) # 0}

\* the multiplications by 15 of the function at entry
MulsBy15 ==
    {I \in EntryLive : entry.inst[I].op = "Mul"
                       /\ (entry.inst[I].a = C(15) \/ entry.inst[I].b = C(15))}

\* x of Mul(x, 15) or Mul(15, x)
Multiplicand(i) == IF i.b = C(15) THEN i.a ELSE i.b

\* operand o as it reads now: itself, or whatever replaced an erased o
Redirected(o, now) == now = o \/ (o.k = "inst" /\ o.v \notin Live(blk))

\* C5: after one run of strength reduction, every Mul(x, 15) or Mul(15, x) is
\* erased; shifted = Shl(x, 4) and result = Sub(shifted, x) stand immediately
\* before the place it had; every former use refers to result; and result
\* evaluates to 15 * x modulo 2^W for every argument on which it is executed
\* and x has a value.
C5_MulBy15Reduced ==
    (Done /\ pass = "strength") =>
        \A I \in MulsBy15 :
            /\ I \notin Live(blk)
            /\ \E h, r \in NewIn(EntryBlockOf(I)) :
                 LET n == EntryBlockOf(I)
                     follower == NextOf(entry.blk[n], I)
                 IN /\ inst[h].op = "Shl" /\ inst[h].b = C(4)
                    /\ Redirected(Multiplicand(entry.inst[I]), inst[h].a)
                    /\ inst[r] = Instr("Sub", Ref(h), inst[h].a)
                    /\ NextOf(blk[n], h) = r
                    /\ follower \in Live(blk) \cup {End} => NextOf(blk[n], r) = follower
                    /\ \A u \in UsesAtEntry(I) :
                         u[1] \in Live(blk) => SlotNow(u) = Ref(r)
                    /\ \A x \in 0..(Mod - 1) : \A m \in InitialMemory :
                         \A after \in Evaluate(inst, blk, x, m) :
                             LET d == OperandValue(inst[h].a, x, after)
                             IN (r \in DOMAIN after /\ d # Poison) =>
                                    after[r] = (15 * d) % Mod

\* the divisions by 8 of the function at entry
DivsBy8 ==
    {I \in EntryLive : entry.inst[I].op \in {"SDiv", "UDiv"} /\ entry.inst[I].b = C(8)}

\* C6: after one run of strength reduction, every SDiv(x, 8) and UDiv(x, 8)
\* is erased and replaced by a right shift by 3 (LShr for UDiv, AShr for
\* SDiv) to which every former use refers, and for every non-negative x the
\* shift, when executed, evaluates to x divided by 8.
C6_DivBy8Reduced ==
    (Done /\ pass = "strength") =>
        \A I \in DivsBy8 :
            /\ I \notin Live(blk)
            /\ \E r \in NewIn(EntryBlockOf(I)) :
                 /\ inst[r].op = (IF entry.inst[I].op = "UDiv" THEN "LShr" ELSE "AShr")
                 /\ inst[r].b = C(3)
                 /\ Redirected(entry.inst[I].a, inst[r].a)
                 /\ \A u \in UsesAtEntry(I) :
                      u[1] \in Live(blk) => SlotNow(u) = Ref(r)
                 /\ \A x \in 0..(Mod - 1) : \A m \in InitialMemory :
                      \A after \in Evaluate(inst, blk, x, m) :
                          LET d == OperandValue(inst[r].a, x, after)
                          IN (r \in DOMAIN after /\ d # Poison /\ Signed(d) >= 0) =>
                                 after[r] = d \div 8

\* an instruction that carries a constant some rule looks for: Add with 0,
\* Mul with 1 or 15, SDiv/UDiv by 8, and Sub(v, 1) whose v is an Add of 1 or
\* a Load
Trigger(tab, i) ==
    \/ i.op = "Add" /\ (i.a = C(0) \/ i.b = C(0))
    \/ i.op = "Mul" /\ ({i.a, i.b} \cap {C(1), C(15)} # {})
    \/ i.op \in {"SDiv", "UDiv"} /\ i.b = C(8)
    \/ /\ i.op = "Sub" /\ i.b = C(1) /\ i.a.k = "inst"
       /\ \/ tab[i.a.v].op = "Load"
          \/ tab[i.a.v].op = "Add" /\ (tab[i.a.v].a = C(1) \/ tab[i.a.v].b = C(1))

\* the function at entry carries only non-trigger constants
NonTrigger == \A I \in EntryLive : ~Trigger(entry.inst, entry.inst[I])

\* C7: a function that carries only non-trigger constants is left as it was
\* by every pass of either plugin: same instructions, same operands, same
\* order, nothing created or erased, at every point of the run, and every
\* call returns.
C7_NoSpuriousRewrite ==
    NonTrigger =>
        /\ inst = entry.inst
        /\ blk = entry.blk
        /\ erased = {}
        /\ rewrites = 0
        /\ ~NeverReturns

\* a finished run of the combiner over Add(b, 1) followed by Sub(a, 2), in a
\* function with only non-trigger constants
C7_Witness ==
    /\ Done /\ pass = "multi" /\ NonTrigger
    /\ \E q \in EntryPlaces :
         /\ ChainBase(EntryAt(q, 0)) # NoOperand
         /\ EntryAt(q, 1) = Instr("Sub", Ref(EntryId(q, 0)), C(2))

\* the Subs the current invocation rewrote: erased, or given another first
\* operand by something else than the redirection of an erased value
RewrittenSubs ==
    {j \in EntryLive :
        /\ entry.inst[j].op = "Sub"
        /\ \/ j \notin Live(blk)
           \/ /\ inst[j].a # entry.inst[j].a
              /\ ~(entry.inst[j].a.k = "inst" /\ entry.inst[j].a.v \in erased)}

\* the Subs that end a chain of consecutive instructions at entry
WindowSubs ==
    {EntryId(q, 1) : q \in DirectChains} \cup {EntryId(q, 3) : q \in RoundTripChains}

\* apart from rewritten Subs, the function is what it was at entry: nothing
\* created, the order kept, operands changed only by redirection
RestUnchanged ==
    /\ DOMAIN inst = DOMAIN entry.inst
    /\ \A n \in 1..Len(blk) :
         blk[n] = SelectSeq(entry.blk[n], LAMBDA j : j \notin erased)
    /\ \A j \in Live(blk) \ RewrittenSubs :
         /\ inst[j].op = entry.inst[j].op
         /\ Redirected(entry.inst[j].a, inst[j].a)
         /\ Redirected(entry.inst[j].b, inst[j].b)

\* C8: the combiner rewrites a Sub only at the end of a chain Add,
\* (Store, Load of the same slot,) Sub of consecutive instructions of one
\* block, and leaves everything else unchanged.
C8_OnlyAdjacentWindow ==
    pass = "multi" => (RewrittenSubs \subseteq WindowSubs /\ RestUnchanged)

\* C9: a second run of the same pass right after a first one performs no
\* rewrite and reports changed = false.
C9_SecondRunUnchanged ==
    (Done /\ run >= 2) => (rewrites = 0 /\ result = "all")

\* C10: the scan position never refers to an erased instruction, and a
\* finished run has examined exactly the instructions the function had at
\* entry, each once, in block order.
C10_ScanSafe ==
    /\ pc = "scan" => it \notin erased
    /\ Done => examined = Flatten(entry.blk, 1)

\* an operand that refers to an erased instruction
Dangling(o) == o.k = "inst" /\ o.v \in erased

\* C11: in every state during and after a run, an erased instruction is out
\* of every block and no instruction remaining in the function has an
\* operand that refers to an erased instruction: all its uses were
\* redirected to another value before it was erased.
C11_NoDanglingUses ==
    /\ erased \cap Live(blk) = {}
    /\ \A j \in Live(blk) : ~Dangling(inst[j].a) /\ ~Dangling(inst[j].b)

\* an instruction that had a use at entry has been erased, and the user is
\* still in the function with that operand slot redirected to another value
C11_Witness ==
    \E I \in erased : \E u \in UsesAtEntry(I) :
        /\ u[1] \in Live(blk)
        /\ SlotNow(u) # Ref(I)

====
